---- MODULE Spec2Model ----
(***************************************************************************)
(* Model of the product filter of the off-chain client                      *)
(* (src/Off-chain/Filter.py) and of the menu loop that starts filtering     *)
(* sessions (src/Off-chain/main.py).                                        *)
(*                                                                          *)
(* Python values are modelled as tagged records [t, v]: t is the Python     *)
(* type ("int", "bool", "str") and v a number; for a string v is its rank   *)
(* in lexicographic order, so that ==, <, <= on strings are the ones on v.  *)
(* A Python list is a sequence.  A list object that two names share is      *)
(* modelled by the variables that hold its contents plus an aliasing flag.  *)
(*                                                                          *)
(* Spec is the program: the menu loop and the frames of filterProducts.     *)
(* SpecCall is one direct call of simpleFilter, orFilter or andFilter on    *)
(* any list, any criterion and any log of the bounds.                       *)
(* SpecPair is two such calls in a row, SpecSession a session and the       *)
(* stack, SpecLogin the login loop, SpecInput an ID prompt and SpecSupplier *)
(* one call of insert_raw_material.                                         *)
(***************************************************************************)
EXTENDS Integers, Sequences, FiniteSets

VARIABLES
    products,   \* what BlockChain.get_all_products() returns
    events,     \* what event_logs.get_raw_materials_used_events() returns
    defaults,   \* the list object created once for `results=[]` (Filter.py:121)
    results,    \* contents of the list bound to `results` in the caller
    aliased,    \* TRUE when `results` is the very object `defaults`
    filters,    \* the function bound to `filters` ("simpleFilter", ...)
    criteria,   \* the criterion of the last step
    given,      \* what the list passed to the last call held when it was called
    returned,   \* the value the last call of a filter returned
    error,      \* exception the last call raised, "none" when it returned
    scanned,    \* records the last evaluation reached
    pc,         \* position of the control flow
    user_role,        \* connection.role, the role chosen at start-up
    address,          \* the address typed at the last login attempt
    registered,       \* the user contract: role of each account, 0 for none
    default_account,  \* web3.eth.default_account
    unlocked,         \* accounts unlocked on the node
    created,          \* the createUser transactions sent: <<account, role>>
    outcome,          \* how the last set_account_as_default ended
    current,          \* the text typed at an ID prompt
    validator,        \* the id_input_validation that judged it
    verdict,          \* "True" or "ValidationError"
    previous,         \* the criterion of the step before, of two in a row
    actions,          \* insert_raw_material: the last choice of the user
    raw_materials,    \* insert_raw_material: the materials accepted so far
    entered,          \* every material entered, with what input_validation said
    submitted,        \* the lists passed to create_raw_materials_on_blockchain
    frames            \* the frames of filterProducts on the stack

filterVars == <<products, events, defaults, results, aliased, filters,
                criteria, given, returned, error, scanned, frames>>

loginVars == <<user_role, address, registered, default_account, unlocked,
               created, outcome>>

inputVars == <<current, validator, verdict>>

supplierVars == <<actions, raw_materials, entered, submitted>>

vars == <<filterVars, pc, loginVars, inputVars, previous, supplierVars>>

----------------------------------------------------------------------------
(* Bounds *)

MaxProducts == 2

MaxEvents == 2

MaxLen == 3

\* longest text typed at an ID prompt
MaxText == 3

----------------------------------------------------------------------------
(* Python values *)

IntVal(n) == [t |-> "int", v |-> n]

StrVal(n) == [t |-> "str", v |-> n]

BoolVal(b) == [t |-> "bool", v |-> IF b THEN 1 ELSE 0]

\* bool is a subclass of int: True == 1 and True < 2 are legal Python
Numeric(x) == x.t \in {"int", "bool"}

Operators == {"eq", "gt", "ge", "lt", "le"}

\* operator.eq never raises; the ordering operators raise TypeError when one
\* operand is a str and the other a number
Comparable(op, a, b) ==
    \/ op = "eq"
    \/ Numeric(a) /\ Numeric(b)
    \/ a.t = "str" /\ b.t = "str"

\* Apply with "Greater equal" bound to operator.gt
ApplyGeAsGt(op, a, b) ==
    CASE op = "eq" -> IF Numeric(a) /\ Numeric(b) THEN a.v = b.v ELSE a = b
      [] op = "gt" -> a.v > b.v
      [] op = "ge" -> a.v > b.v
      [] op = "lt" -> a.v < b.v
      [] op = "le" -> a.v <= b.v

Apply(op, a, b) ==
    CASE op = "eq" -> IF Numeric(a) /\ Numeric(b) THEN a.v = b.v ELSE a = b
      [] op = "gt" -> a.v > b.v
      [] op = "ge" -> a.v >= b.v
      [] op = "lt" -> a.v < b.v
      [] op = "le" -> a.v <= b.v

----------------------------------------------------------------------------
(* Sequences as Python lists *)

Range(s) == {s[i] : i \in 1..Len(s)}

\* Remove deleting the last element instead (list.pop)
RemoveLast(s, e) == SubSeq(s, 1, Len(s) - 1)

\* list.remove(e): deletes the first occurrence of e
RECURSIVE Remove(_, _)
Remove(s, e) ==
    IF s = <<>> THEN <<>>
    ELSE IF Head(s) = e THEN Tail(s)
    ELSE <<Head(s)>> \o Remove(Tail(s), e)

\* list(set(l)) for a list of product ids: CPython iterates a set of small
\* non-negative ints in the order of their hash, which is their value
RECURSIVE SortedList(_)
SortedList(S) ==
    IF S = {} THEN <<>>
    ELSE LET m == CHOOSE x \in S : \A y \in S : x.v <= y.v
         IN <<m>> \o SortedList(S \ {m})

ListOfSet(l) == SortedList(Range(l))

----------------------------------------------------------------------------
(* src/Off-chain/Filter.py: simpleFilter, orFilter, andFilter *)

\* criteria["elements"]()
Elements(c) ==
    IF c.elements = "get_all_products" THEN products ELSE events

\* Test taking every event that has the field for a match
TestAnyEvent(e, c) ==
    IF c.field \notin DOMAIN e
    THEN IF c.event THEN "KeyError" ELSE "AttributeError"
    ELSE IF ~Comparable(c.operator, e[c.field], c.value) THEN "TypeError"
    ELSE IF c.event \/ Apply(c.operator, e[c.field], c.value) THEN "match"
    ELSE "nomatch"

\* The test of one record e (Filter.py:16 and :20): the field is read first
\* (KeyError on a dict, AttributeError on an object when it is missing),
\* then the operator is applied (TypeError when the operands do not compare).
Test(e, c) ==
    IF c.field \notin DOMAIN e
    THEN IF c.event THEN "KeyError" ELSE "AttributeError"
    ELSE IF ~Comparable(c.operator, e[c.field], c.value) THEN "TypeError"
    ELSE IF Apply(c.operator, e[c.field], c.value) THEN "match"
    ELSE "nomatch"

\* the id appended for a matching record: e["args"]["pId"] or e.productId
IdOf(e, c) == IF c.event THEN e.pId ELSE e.productId

\* The loop of simpleFilter from record i on, `result` being the list the
\* caller passed in.  arg is what that list object holds when the call ends,
\* ret the returned list (the same object), scanned the records reached.
RECURSIVE Scan(_, _, _, _)
Scan(elements, i, result, c) ==
    IF i > Len(elements)
    THEN [error |-> "none", arg |-> result, ret |-> result,
          scanned |-> Len(elements)]
    ELSE LET t == Test(elements[i], c)
         IN CASE t = "match" ->
                    Scan(elements, i + 1,
                         Append(result, IdOf(elements[i], c)), c)
              [] t = "nomatch" -> Scan(elements, i + 1, result, c)
              [] OTHER -> [error |-> t, arg |-> result, ret |-> <<>>,
                           scanned |-> i]

simpleFilter(result, c) == Scan(Elements(c), 1, result, c)

\* orFilter evaluating the criterion on a fresh list and returning that
orFilterFresh(result, c) ==
    LET r == simpleFilter(<<>>, c)
    IN IF r.error # "none" THEN [r EXCEPT !.arg = result]
       ELSE [r EXCEPT !.arg = result, !.ret = ListOfSet(r.ret)]

\* orFilter returning the list itself, without list(set(..))
orFilterNoSet(result, c) == simpleFilter(result, c)

orFilter(result, c) ==
    LET r == simpleFilter(result, c)
    IN IF r.error # "none" THEN r
       ELSE [r EXCEPT !.ret = ListOfSet(r.arg)]

\* RemoveAbsent without the copy: the loop walks the list it deletes from
RECURSIVE RemoveAbsentLive(_, _, _, _)
RemoveAbsentLive(temp2, i, temp, result) ==
    IF i > Len(result) THEN result
    ELSE RemoveAbsentLive(temp2, i + 1, temp,
                          IF result[i] \notin Range(temp)
                          THEN Remove(result, result[i]) ELSE result)

\* the loop `for e in temp2` of andFilter from position i on
RECURSIVE RemoveAbsent(_, _, _, _)
RemoveAbsent(temp2, i, temp, result) ==
    IF i > Len(temp2) THEN result
    ELSE RemoveAbsent(temp2, i + 1, temp,
                      IF temp2[i] \notin Range(temp)
                      THEN Remove(result, temp2[i]) ELSE result)

\* andFilter returning its argument untouched when nothing matched
andFilterKeepOnEmpty(result, c) ==
    LET r == simpleFilter(<<>>, c)
    IN IF r.error # "none" THEN [r EXCEPT !.arg = result]
       ELSE IF r.ret = <<>> THEN [r EXCEPT !.arg = result, !.ret = result]
       ELSE LET out == RemoveAbsent(result, 1, r.ret, result)
            IN [r EXCEPT !.arg = out, !.ret = out]

\* andFilter evaluating the criterion on the list it was given
\* (temp = simpleFilter(result, criteria)): temp is then that very list
andFilterOnArgument(result, c) == simpleFilter(result, c)

andFilter(result, c) ==
    LET r == simpleFilter(<<>>, c)
    IN IF r.error # "none" THEN [r EXCEPT !.arg = result]
       ELSE LET out == RemoveAbsent(result, 1, r.ret, result)
            IN [r EXCEPT !.arg = out, !.ret = out]

\* filters(results, criteria) forgetting the list: the criterion alone decides
CallFilterLast(f, result, c) ==
    LET r == simpleFilter(<<>>, c)
    IN [r EXCEPT !.arg = result]

\* filters(results, criteria), Filter.py:189
CallFilter(f, result, c) ==
    CASE f = "simpleFilter" -> simpleFilter(result, c)
      [] f = "orFilter" -> orFilter(result, c)
      [] f = "andFilter" -> andFilter(result, c)

\* TRUE when the list a filter returns is the object it was given
ReturnsArgument(f) == f \in {"simpleFilter", "andFilter"}

----------------------------------------------------------------------------
(* The ledger and the event log the filter reads *)

Addresses == {StrVal(1), StrVal(2)}

Names == {StrVal(3), StrVal(4)}

CFValues == {IntVal(50), IntVal(80), IntVal(120)}

\* the ids of the products on the ledger
Ids == {IntVal(i) : i \in 1..MaxProducts}

\* the products the events of the log are about
EventIds == {IntVal(1), IntVal(2)}

\* a Product of the ledger: id and the attributes of row
Product(i, row) ==
    [productId |-> IntVal(i), name |-> row.name, address |-> row.address,
     CF |-> row.CF, isEnded |-> row.isEnded]

\* e["args"] of a RawMaterialUsed event
EventArgs ==
    { [pId |-> id, supplier |-> s, transformer |-> StrVal(2),
       name |-> StrVal(2 + s.v)] : id \in EventIds, s \in Addresses }

\* The ledger and the log are append-only: what a run of the client reads
\* is a prefix of one history.  Product i of that history:
ProductHistory(i) ==
    CASE i % 3 = 1 ->
           Product(i, [name |-> StrVal(3), address |-> StrVal(1),
                       CF |-> IntVal(50), isEnded |-> BoolVal(FALSE)])
      [] i % 3 = 2 ->
           Product(i, [name |-> StrVal(4), address |-> StrVal(2),
                       CF |-> IntVal(120), isEnded |-> BoolVal(TRUE)])
      [] OTHER ->
           Product(i, [name |-> StrVal(3), address |-> StrVal(2),
                       CF |-> IntVal(80), isEnded |-> BoolVal(TRUE)])

\* event j of that history: two materials per product, from two suppliers,
\* used by one transformer
EventHistory(j) ==
    [pId |-> IntVal((j + 1) \div 2), supplier |-> StrVal(2 - (j % 2)),
     transformer |-> StrVal(2), name |-> StrVal(4 - (j % 2))]

\* BlockChain.get_all_products(): the products of the ledger, [] when the
\* node cannot be reached (ConnectionError)
get_all_products(n, connected) ==
    IF connected THEN [i \in 1..n |-> ProductHistory(i)] ELSE <<>>

Ledgers ==
    { get_all_products(n, up) : n \in 0..MaxProducts, up \in BOOLEAN }

Logs == { [j \in 1..n |-> EventHistory(j)] : n \in 0..MaxEvents }

\* args of an event of another shape (a Transformation: userAddress, cf),
\* without supplier, transformer and name
ForeignArgs ==
    { [pId |-> IntVal(2), userAddress |-> StrVal(2), cf |-> IntVal(50)] }

\* any log of at most MaxEvents events, of either shape
MixedLogs ==
    UNION { [1..n -> EventArgs \cup ForeignArgs] : n \in 0..MaxEvents }

\* any list of product ids a caller may hold, duplicates included
CallerLists == UNION { [1..n -> EventIds] : n \in 0..MaxLen }

----------------------------------------------------------------------------
(* Criteria *)

Criterion(el, val, fld, op, ev) ==
    [elements |-> el, value |-> val, field |-> fld, operator |-> op,
     event |-> ev]

\* `criteria = {}`, before a field is chosen
NoCriteria == Criterion("none", IntVal(0), "none", "eq", FALSE)

\* select_operator(): one of the five operators
select_operator == Operators

\* MenuCriteria with select_operator() asked for the name of a product too
MenuCriteriaNameOperator ==
    { Criterion("get_all_products", val, fld, op, FALSE) :
        val \in Ids, fld \in {"productId"}, op \in select_operator }
    \cup { Criterion("get_all_products", val, "name", op, FALSE) :
        val \in Names, op \in select_operator }
    \cup { Criterion("get_all_products", val, "address", "eq", FALSE) :
        val \in Addresses }
    \cup { Criterion("get_all_products", val, "CF", op, FALSE) :
        val \in CFValues, op \in select_operator }
    \cup { Criterion("get_all_products", BoolVal(b), "isEnded", "eq", FALSE) :
        b \in BOOLEAN }
    \cup { Criterion("get_raw_materials_used_events", val, fld, "eq", TRUE) :
        val \in Addresses, fld \in {"supplier", "transformer"} }
    \cup { Criterion("get_raw_materials_used_events", val, "name", "eq", TRUE) :
        val \in Names }

\* the criteria filterProducts builds from the answers of the user
MenuCriteria ==
    { Criterion("get_all_products", val, "productId", op, FALSE) :
        val \in Ids, op \in select_operator }
    \cup { Criterion("get_all_products", val, "name", "eq", FALSE) :
        val \in Names }
    \cup { Criterion("get_all_products", val, "address", "eq", FALSE) :
        val \in Addresses }
    \cup { Criterion("get_all_products", val, "CF", op, FALSE) :
        val \in CFValues, op \in select_operator }
    \cup { Criterion("get_all_products", BoolVal(b), "isEnded", "eq", FALSE) :
        b \in BOOLEAN }
    \cup { Criterion("get_raw_materials_used_events", val, fld, "eq", TRUE) :
        val \in Addresses, fld \in {"supplier", "transformer"} }
    \cup { Criterion("get_raw_materials_used_events", val, "name", "eq", TRUE) :
        val \in Names }

----------------------------------------------------------------------------
(* src/off_chain/base_controller.py: set_account_as_default, get_user_role *)

\* An address as typed: the account it names (0: not an address at all) and
\* whether it is written in checksum case
Address(a, cs) == [acct |-> a, checksummed |-> cs]

\* None, for web3.eth.default_account and for a role that could not be read
None == Address(0, TRUE)

NoRole == 0 - 1

\* web3.eth.accounts, in checksum case
eth_accounts == {Address(1, TRUE), Address(2, TRUE)}

\* what the user may type: a known or an unknown account in either case,
\* or a text that is no address
TypedAddresses ==
    {Address(a, cs) : a \in 1..3, cs \in BOOLEAN} \cup {Address(0, FALSE)}

Roles == 0..2

\* web3.toChecksumAddress: the same account in checksum case; it raises on a
\* text that is no address
IsAddress(a) == a.acct # 0

toChecksumAddress(a) == Address(a.acct, TRUE)

\* the calls of the node that may fail, one at most per attempt
Faults == {"none", "accounts", "unlock", "getRole", "transact", "receipt"}

\* get_user_role(address): the role in the user contract, None when the call
\* raises ConnectionError or ContractLogicError
get_user_role(account, fault, reg) ==
    IF fault = "getRole" THEN NoRole ELSE reg[account]

\* the node and the contract as set_account_as_default finds and leaves them
World ==
    [registered |-> registered, default_account |-> default_account,
     unlocked |-> unlocked, created |-> created]

Ends(w, how) ==
    [registered |-> w.registered, default_account |-> w.default_account,
     unlocked |-> w.unlocked, created |-> w.created, outcome |-> how]

\* set_account_as_default(user_role, address) from the world w.  A
\* ConnectionError or ContractLogicError is printed and the function
\* returns; every other exception is raised again as Exception.
set_account_as_default(role, addr, fault, w) ==
    IF ~IsAddress(addr) THEN Ends(w, "raised")
    ELSE LET account == toChecksumAddress(addr)
         IN IF fault = "accounts" THEN Ends(w, "returned")
            ELSE IF account \notin eth_accounts THEN Ends(w, "raised")
            ELSE IF fault = "unlock" THEN Ends(w, "returned")
            ELSE
              LET w1 == [w EXCEPT !.unlocked = @ \cup {account}]
                  real_role == get_user_role(account, fault, w.registered)
                  w2 == [w1 EXCEPT !.default_account = account]
              IN IF real_role = 0 /\ role # 0
                 THEN IF fault = "transact" THEN Ends(w2, "returned")
                      ELSE LET w3 == [w2 EXCEPT
                                        !.created =
                                            Append(@, <<account, role>>),
                                        !.registered[account] = role]
                           IN IF fault = "receipt" THEN Ends(w3, "raised")
                              ELSE Ends(w3, "returned")
                 ELSE Ends(w2, "returned")

\* the state of the login variables once main has left its login loop
LoggedIn ==
    /\ user_role = 0
    /\ address = None
    /\ registered = [a \in eth_accounts |-> 0]
    /\ default_account = None
    /\ unlocked = {}
    /\ created = <<>>
    /\ outcome = "returned"

\* the state of the prompt variables when no ID is being asked
NoInput ==
    /\ current = <<>>
    /\ validator = "none"
    /\ verdict = "none"

\* insert_raw_material is not running, and no step has gone before
NoSupplier ==
    /\ previous = NoCriteria
    /\ actions = ""
    /\ raw_materials = <<>>
    /\ entered = <<>>
    /\ submitted = <<>>

\* the filter is not running
FilterIdle ==
    /\ products = <<>>
    /\ events = <<>>
    /\ defaults = <<>>
    /\ results = <<>>
    /\ aliased = FALSE
    /\ filters = "simpleFilter"
    /\ criteria = NoCriteria
    /\ given = <<>>
    /\ returned = <<>>
    /\ error = "none"
    /\ scanned = 0
    /\ frames = 0

----------------------------------------------------------------------------
(* id_input_validation of src/Off-chain/Filter.py and of
   src/off_chain/validation.py *)

\* the characters a text is made of
Digits == {"0", "1", "2"}

Chars == Digits \cup {" ", "-", "+", "_", "a"}

RECURSIVE TextsOfLength(_)
TextsOfLength(n) ==
    IF n = 0 THEN {<<>>}
    ELSE {Append(t, ch) : t \in TextsOfLength(n - 1), ch \in Chars}

Texts == UNION {TextsOfLength(n) : n \in 0..MaxText}

\* str.strip(' '), and the blanks int() skips on both sides
RECURSIVE strip(_)
strip(t) ==
    IF t = <<>> THEN t
    ELSE IF Head(t) = " " THEN strip(Tail(t))
    ELSE IF t[Len(t)] = " " THEN strip(SubSeq(t, 1, Len(t) - 1))
    ELSE t

\* the digits part of an integer literal: digits, with single underscores
\* between digits
IsDigitString(t) ==
    /\ t # <<>>
    /\ t[1] \in Digits
    /\ t[Len(t)] \in Digits
    /\ \A i \in 1..Len(t) : t[i] \in Digits \cup {"_"}
    /\ \A i \in 1..(Len(t) - 1) : ~(t[i] = "_" /\ t[i + 1] = "_")

DigitValue(ch) == CASE ch = "0" -> 0 [] ch = "1" -> 1 [] ch = "2" -> 2

RECURSIVE DigitsValue(_, _)
DigitsValue(t, acc) ==
    IF t = <<>> THEN acc
    ELSE IF Head(t) = "_" THEN DigitsValue(Tail(t), acc)
    ELSE DigitsValue(Tail(t), 10 * acc + DigitValue(Head(t)))

\* int(text): blanks around, one optional sign, then the digits; ok is FALSE
\* where int raises ValueError
int(t) ==
    LET body == strip(t)
        signed == body # <<>> /\ Head(body) \in {"-", "+"}
        digits == IF signed THEN Tail(body) ELSE body
    IN IF ~IsDigitString(digits) THEN [ok |-> FALSE, value |-> 0]
       ELSE [ok |-> TRUE,
             value |-> IF signed /\ Head(body) = "-"
                       THEN 0 - DigitsValue(digits, 0)
                       ELSE DigitsValue(digits, 0)]

\* Filter.py: int(current), then int_id < 1 is refused
Filter_id_input_validation(text) ==
    LET int_id == int(text)
    IN IF ~int_id.ok THEN "ValidationError"
       ELSE IF int_id.value < 1 THEN "ValidationError"
       ELSE "True"

\* validation.py: int(current.strip(' ')), then int_id < 0 is refused
validation_id_input_validation(text) ==
    LET current_to_test == strip(text)
        int_id == int(current_to_test)
    IN IF ~int_id.ok THEN "ValidationError"
       ELSE IF int_id.value < 0 THEN "ValidationError"
       ELSE "True"

----------------------------------------------------------------------------
(* The program: the menu loop of main and filterProducts *)

Init ==
    /\ products \in Ledgers
    /\ events \in Logs
    /\ defaults = <<>>
    /\ results = <<>>
    /\ aliased = FALSE
    /\ filters = "simpleFilter"
    /\ criteria = NoCriteria
    /\ given = <<>>
    /\ returned = <<>>
    /\ error = "none"
    /\ scanned = 0
    /\ pc = "menu"
    /\ frames = 0
    /\ LoggedIn
    /\ NoInput
    /\ NoSupplier

\* main: the user picks "Search one or more products"; action() calls
\* filterProducts with no argument, so `results` is the default list object
MenuSearch ==
    /\ pc = "menu"
    /\ results' = defaults
    /\ aliased' = TRUE
    /\ filters' = "simpleFilter"
    /\ pc' = "field"
    /\ UNCHANGED <<products, events, defaults, criteria, given, returned,
                   error, scanned>>
    /\ UNCHANGED <<loginVars, inputVars, previous, supplierVars>>

\* main: the user picks "Exit"; bye() ends the process
MenuExit ==
    /\ pc = "menu"
    /\ pc' = "exited"
    /\ UNCHANGED <<products, events, defaults, results, aliased, filters,
                   criteria, given, returned, error, scanned>>
    /\ UNCHANGED <<loginVars, inputVars, previous, supplierVars>>

\* filterProducts up to the second prompt: the criterion is built and
\* `results = filters(results, criteria)` runs.  An exception is caught
\* nowhere, neither in filterProducts nor in main: the process ends.
FilterStep(c) ==
    /\ pc = "field"
    /\ LET r == CallFilter(filters, results, c)
       IN /\ Len(r.arg) <= MaxLen
          /\ criteria' = c
          /\ given' = results
          /\ error' = r.error
          /\ scanned' = r.scanned
          /\ defaults' = IF aliased THEN r.arg ELSE defaults
          /\ IF r.error = "none"
             THEN /\ results' = r.ret
                  /\ returned' = r.ret
                  /\ aliased' = (aliased /\ ReturnsArgument(filters))
                  /\ pc' = "choice"
             ELSE /\ results' = r.arg
                  /\ returned' = <<>>
                  /\ aliased' = aliased
                  /\ pc' = "crashed"
    /\ UNCHANGED <<products, events, filters>>
    /\ UNCHANGED <<loginVars, inputVars, previous, supplierVars>>

\* the frames of filterProducts return to the menu loop: their locals are gone
BackToMenu ==
    /\ pc' = "menu"
    /\ results' = <<>>
    /\ aliased' = FALSE
    /\ criteria' = NoCriteria
    /\ given' = <<>>
    /\ returned' = <<>>
    /\ scanned' = 0
    /\ UNCHANGED <<products, events, defaults, filters, error>>
    /\ UNCHANGED <<loginVars, inputVars, previous, supplierVars>>

\* "View one product details": detailed_print(value), then return
ViewDetails ==
    /\ pc = "choice"
    /\ BackToMenu

\* "Exit" of the second prompt: filterProducts returns
ExitFilter ==
    /\ pc = "choice"
    /\ BackToMenu

\* "Add another filter", then AND or OR: filterProducts(results, f), whose
\* frame starts with `criteria = {}`
AddFilter(f) ==
    /\ pc = "choice"
    /\ filters' = f
    /\ criteria' = NoCriteria
    /\ given' = <<>>
    /\ returned' = <<>>
    /\ scanned' = 0
    /\ pc' = "field"
    /\ UNCHANGED <<products, events, defaults, results, aliased, error>>
    /\ UNCHANGED <<loginVars, inputVars, previous, supplierVars>>

\* Spec bounds the lists of a session, not its steps: it leaves the stack
\* out of account, which SpecSession follows
Next ==
    \/ MenuSearch /\ UNCHANGED frames
    \/ MenuExit /\ UNCHANGED frames
    \/ \E c \in MenuCriteria : FilterStep(c) /\ UNCHANGED frames
    \/ ViewDetails /\ UNCHANGED frames
    \/ ExitFilter /\ UNCHANGED frames
    \/ \E f \in {"andFilter", "orFilter"} : AddFilter(f) /\ UNCHANGED frames

Spec == Init /\ [][Next]_vars

----------------------------------------------------------------------------
(* A session and the stack: every "Add another filter" calls filterProducts
   from within filterProducts, and no frame returns before the last one *)

\* sys.getrecursionlimit() of the interpreter; the frames of main and of the
\* prompts lie on the same stack, so that the limit is met no later
RecursionLimit == 1000

\* no product on the ledger, no event in the log: the steps of a session are
\* followed, with nothing for them to find
SessionInit ==
    /\ Init
    /\ products = get_all_products(0, TRUE)
    /\ events = <<>>

\* main calls filterProducts()
Search ==
    /\ MenuSearch
    /\ frames' = 1

\* the criterion is asked and filters(results, criteria) runs
Step(c) ==
    /\ FilterStep(c)
    /\ UNCHANGED frames

\* "Add another filter": filterProducts(results, f) is called
Recurse(f) ==
    /\ frames < RecursionLimit
    /\ AddFilter(f)
    /\ frames' = frames + 1

\* the same choice with the stack full: the call raises RecursionError,
\* which nothing catches
RecursionError ==
    /\ pc = "choice"
    /\ frames = RecursionLimit
    /\ error' = "RecursionError"
    /\ pc' = "crashed"
    /\ frames' = 0
    /\ UNCHANGED <<products, events, defaults, results, aliased, filters,
                   criteria, given, returned, scanned>>
    /\ UNCHANGED <<loginVars, inputVars, previous, supplierVars>>

\* "View one product details" or "Exit": the innermost frame returns, and
\* every frame under it, each having nothing left to do after its call
Return ==
    /\ ViewDetails \/ ExitFilter
    /\ frames' = 0

Leave ==
    /\ MenuExit
    /\ UNCHANGED frames

SessionNext ==
    \/ Search
    \/ \E c \in MenuCriteria : Step(c)
    \/ \E f \in {"andFilter", "orFilter"} : Recurse(f)
    \/ RecursionError
    \/ Return
    \/ Leave

SpecSession == SessionInit /\ [][SessionNext]_vars

----------------------------------------------------------------------------
(* The three filters called directly, on any list and any criterion *)

Orderings == Operators \ {"eq"}

\* criteria filterProducts never builds: a field the records do not have, an
\* ordering operator on a field it offers with Equal only, a value of
\* another type than the field
OtherCriteria ==
    { Criterion("get_all_products", IntVal(1), "lot", "eq", FALSE),
      Criterion("get_raw_materials_used_events", IntVal(1), "lot", "eq", TRUE),
      Criterion("get_all_products", StrVal(1), "CF", "gt", FALSE),
      Criterion("get_raw_materials_used_events", IntVal(1), "supplier", "lt",
                TRUE) }
    \cup { Criterion("get_all_products", StrVal(1), "address", op, FALSE) :
             op \in Orderings }
    \cup { Criterion("get_all_products", StrVal(3), "name", op, FALSE) :
             op \in Orderings }
    \cup { Criterion("get_all_products", BoolVal(TRUE), "isEnded", op, FALSE) :
             op \in Orderings }
    \cup { Criterion("get_raw_materials_used_events", StrVal(1), fld, op,
                     TRUE) :
             fld \in {"supplier", "transformer"}, op \in Orderings }
    \cup { Criterion("get_raw_materials_used_events", StrVal(3), "name", op,
                     TRUE) : op \in Orderings }

AllCriteria == MenuCriteria \cup OtherCriteria

\* A call reads one of the two sources: either the ledger varies and the log
\* is empty, or the log varies under the whole ledger.
CallInit ==
    /\ \/ products \in Ledgers /\ events = <<>>
       \/ products = get_all_products(MaxProducts, TRUE)
          /\ events \in MixedLogs
    /\ results \in CallerLists
    /\ defaults = <<>>
    /\ aliased = FALSE
    /\ filters = "simpleFilter"
    /\ criteria = NoCriteria
    /\ given = <<>>
    /\ returned = <<>>
    /\ error = "none"
    /\ scanned = 0
    /\ pc = "call"
    /\ frames = 0
    /\ LoggedIn
    /\ NoInput
    /\ NoSupplier

\* f(results, c): `results` is the caller's list object, which f may change
Call(f, c) ==
    /\ pc = "call"
    /\ LET r == CallFilter(f, results, c)
       IN /\ filters' = f
          /\ criteria' = c
          /\ given' = results
          /\ results' = r.arg
          /\ returned' = r.ret
          /\ error' = r.error
          /\ scanned' = r.scanned
    /\ pc' = "returned"
    /\ UNCHANGED <<products, events, defaults, aliased, frames>>
    /\ UNCHANGED <<loginVars, inputVars, previous, supplierVars>>

CallSimple == \E c \in AllCriteria : Call("simpleFilter", c)

CallOr == \E c \in AllCriteria : Call("orFilter", c)

CallAnd == \E c \in AllCriteria : Call("andFilter", c)

CallNext == CallSimple \/ CallOr \/ CallAnd

SpecCall == CallInit /\ [][CallNext]_vars

----------------------------------------------------------------------------
(* Two steps in a row with the same connective, over fixed records *)

\* the whole ledger, and the whole log with or without an event of another
\* shape at its end
PairLogs ==
    LET log == [j \in 1..MaxEvents |-> EventHistory(j)]
    IN {log} \cup {Append(log, a) : a \in ForeignArgs}

\* the accumulated lists the first step starts from
PairLists == {l \in CallerLists : Len(l) < MaxLen}

PairInit ==
    /\ products = get_all_products(MaxProducts, TRUE)
    /\ events \in PairLogs
    /\ results \in PairLists
    /\ defaults = <<>>
    /\ aliased = FALSE
    /\ filters = "simpleFilter"
    /\ criteria = NoCriteria
    /\ given = <<>>
    /\ returned = <<>>
    /\ error = "none"
    /\ scanned = 0
    /\ pc = "call"
    /\ frames = 0
    /\ LoggedIn
    /\ NoInput
    /\ NoSupplier

\* the second step: filterProducts(results, f) is entered again with the
\* list the first step returned, and filters(results, c) runs on it
Then(c) ==
    /\ pc = "returned"
    /\ filters \in {"andFilter", "orFilter"}
    /\ error = "none"
    /\ LET r == CallFilter(filters, returned, c)
       IN /\ previous' = criteria
          /\ criteria' = c
          /\ results' = r.arg
          /\ returned' = r.ret
          /\ error' = r.error
          /\ scanned' = r.scanned
    /\ pc' = "composed"
    /\ UNCHANGED <<products, events, defaults, aliased, filters, given>>
    /\ UNCHANGED <<loginVars, inputVars, supplierVars, frames>>

PairNext ==
    \/ CallOr
    \/ CallAnd
    \/ \E c \in AllCriteria : Then(c)

SpecPair == PairInit /\ [][PairNext]_vars

----------------------------------------------------------------------------
(* The login loop of main *)

LoginInit ==
    /\ FilterIdle
    /\ NoSupplier
    /\ NoInput
    /\ user_role \in Roles
    /\ address = None
    /\ registered \in [eth_accounts -> Roles]
    /\ default_account = None
    /\ unlocked = {}
    /\ created = <<>>
    /\ outcome = "none"
    /\ pc = "login"

\* main: the address is asked and set_account_as_default is called; when it
\* returns the loop ends, when it raises the user is asked what to do
Login(addr, fault) ==
    /\ pc = "login"
    /\ LET r == set_account_as_default(user_role, addr, fault, World)
       IN /\ address' = addr
          /\ registered' = r.registered
          /\ default_account' = r.default_account
          /\ unlocked' = r.unlocked
          /\ created' = r.created
          /\ outcome' = r.outcome
          /\ pc' = IF r.outcome = "raised" THEN "retry" ELSE "menu"
    /\ UNCHANGED <<previous, supplierVars>>
    /\ UNCHANGED <<filterVars, inputVars, user_role>>

\* "Try again"
TryAgain ==
    /\ pc = "retry"
    /\ pc' = "login"
    /\ UNCHANGED <<previous, supplierVars>>
    /\ UNCHANGED <<filterVars, inputVars, loginVars>>

\* "Exit": bye()
ExitLogin ==
    /\ pc = "retry"
    /\ pc' = "exited"
    /\ UNCHANGED <<previous, supplierVars>>
    /\ UNCHANGED <<filterVars, inputVars, loginVars>>

LoginNext ==
    \/ \E addr \in TypedAddresses, fault \in Faults : Login(addr, fault)
    \/ TryAgain
    \/ ExitLogin

SpecLogin == LoginInit /\ [][LoginNext]_vars

----------------------------------------------------------------------------
(* An ID prompt: inquirer calls validate(answers, current) on the text typed
   and asks again when it raises ValidationError *)

InputInit ==
    /\ FilterIdle
    /\ NoSupplier
    /\ LoggedIn
    /\ NoInput
    /\ pc = "ask"

\* the user types a text and presses enter
Type(text) ==
    /\ pc = "ask"
    /\ current' = text
    /\ pc' = "prompt"
    /\ UNCHANGED <<previous, supplierVars>>
    /\ UNCHANGED <<filterVars, loginVars, validator, verdict>>

\* the prompt of filterProducts, validated by Filter.py
ValidateInFilter ==
    /\ pc = "prompt"
    /\ validator' = "Filter"
    /\ verdict' = Filter_id_input_validation(current)
    /\ pc' = "validated"
    /\ UNCHANGED <<previous, supplierVars>>
    /\ UNCHANGED <<filterVars, loginVars, current>>

\* a prompt of the off_chain package, validated by validation.py
ValidateInValidation ==
    /\ pc = "prompt"
    /\ validator' = "validation"
    /\ verdict' = validation_id_input_validation(current)
    /\ pc' = "validated"
    /\ UNCHANGED <<previous, supplierVars>>
    /\ UNCHANGED <<filterVars, loginVars, current>>

\* after a ValidationError the prompt asks again
AskAgain ==
    /\ pc = "validated"
    /\ verdict = "ValidationError"
    /\ current' = <<>>
    /\ validator' = "none"
    /\ verdict' = "none"
    /\ pc' = "ask"
    /\ UNCHANGED <<previous, supplierVars>>
    /\ UNCHANGED <<filterVars, loginVars>>

InputNext ==
    \/ \E text \in Texts : Type(text)
    \/ ValidateInFilter
    \/ ValidateInValidation
    \/ AskAgain

SpecInput == InputInit /\ [][InputNext]_vars

----------------------------------------------------------------------------
(* src/Off-chain/Supplier.py: insert_raw_material *)

\* Raw_material(name, lot, user_address, carbon footprint), as the three
\* prompts let it through
RawMaterials ==
    { [name |-> n, lot |-> IntVal(l), address |-> StrVal(1),
       cf |-> IntVal(50)] : n \in Names, l \in 0..1 }

\* `valid` of input_validation(raw_material_to_check, raw_materials): the
\* function is not part of the sources at hand; it is taken to answer
\* either way and to leave the list it is shown alone
input_validation == BOOLEAN

\* `if valid: raw_materials.append(raw_material_to_check)`, taking every
\* material
AcceptedAll(list, material, valid) == Append(list, material)

\* `if valid: raw_materials.append(raw_material_to_check)`
Accepted(list, material, valid) ==
    IF valid THEN Append(list, material) ELSE list

\* `if len(raw_materials) > 0: create_raw_materials_on_blockchain(..)`:
\* the calls made so far, with this one
Created(calls, list) ==
    IF Len(list) > 0 THEN Append(calls, list) ELSE calls

SupplierInit ==
    /\ FilterIdle
    /\ LoggedIn
    /\ NoInput
    /\ previous = NoCriteria
    /\ actions = ""
    /\ raw_materials = <<>>
    /\ entered = <<>>
    /\ submitted = <<>>
    /\ pc = "supplier"

\* "Add new raw material": the three answers make a Raw_material, which
\* input_validation judges
AddNewRawMaterial(material, valid) ==
    /\ pc = "supplier"
    /\ Len(entered) < MaxLen
    /\ actions' = "Add new raw material"
    /\ entered' = Append(entered, [material |-> material, valid |-> valid])
    /\ raw_materials' = Accepted(raw_materials, material, valid)
    /\ UNCHANGED <<submitted, pc>>
    /\ UNCHANGED <<filterVars, loginVars, inputVars, previous>>

\* "Add new raw material" with the prompt interrupted: inquirer.prompt
\* returns None and answers["raw material"] raises TypeError
Interrupted ==
    /\ pc = "supplier"
    /\ actions' = "Add new raw material"
    /\ pc' = "crashed"
    /\ UNCHANGED <<raw_materials, entered, submitted>>
    /\ UNCHANGED <<filterVars, loginVars, inputVars, previous>>

\* "Done": the loop ends and a list that is not empty is sent; an exception
\* of the call is printed
Done ==
    /\ pc = "supplier"
    /\ actions' = "Done"
    /\ submitted' = Created(submitted, raw_materials)
    /\ pc' = "ended"
    /\ UNCHANGED <<raw_materials, entered>>
    /\ UNCHANGED <<filterVars, loginVars, inputVars, previous>>

\* "Cancel": the loop ends, the list is dropped and the function returns
Cancel ==
    /\ pc = "supplier"
    /\ actions' = "Cancel"
    /\ raw_materials' = <<>>
    /\ pc' = "ended"
    /\ UNCHANGED <<entered, submitted>>
    /\ UNCHANGED <<filterVars, loginVars, inputVars, previous>>

SupplierNext ==
    \/ \E material \in RawMaterials, valid \in input_validation :
          AddNewRawMaterial(material, valid)
    \/ Interrupted
    \/ Done
    \/ Cancel

SpecSupplier == SupplierInit /\ [][SupplierNext]_vars

----------------------------------------------------------------------------
(* Properties *)

\* the call of filter f has returned (no exception)
Returned(f) ==
    /\ pc \in {"returned", "choice"}
    /\ filters = f
    /\ error = "none"

\* the ids of the fresh evaluation simpleFilter([], criteria)
Fresh == Range(simpleFilter(<<>>, criteria).ret)

\* what the last call of simpleFilter appended to the list it was given
Appended == SubSeq(returned, Len(given) + 1, Len(returned))

NoDuplicates(l) == \A i, j \in 1..Len(l) : l[i] = l[j] => i = j

\* the five comparisons, on the numbers of two values of one type
Holds(op, x, y) ==
    \/ op = "eq" /\ x = y
    \/ op = "gt" /\ x > y
    \/ op = "ge" /\ x >= y
    \/ op = "lt" /\ x < y
    \/ op = "le" /\ x <= y

\* the products with at least one event that satisfies the criterion
EventMatches ==
    { p \in {events[j].pId : j \in 1..Len(events)} :
        \E j \in 1..Len(events) :
            /\ events[j].pId = p
            /\ Holds(criteria.operator, events[j][criteria.field].v,
                     criteria.value.v) }

\* the products whose attribute satisfies the criterion
EntityMatches ==
    { products[i].productId :
        i \in { j \in 1..Len(products) :
                  Holds(criteria.operator, products[j][criteria.field].v,
                        criteria.value.v) } }

\* the field/operator compatibility table of the filter engine
ValidCriterion(c) ==
    \/ /\ ~c.event
       /\ c.elements = "get_all_products"
       /\ \/ c.field \in {"productId", "CF"} /\ c.value.t = "int"
          \/ /\ c.field \in {"name", "address"}
             /\ c.operator = "eq"
             /\ c.value.t = "str"
          \/ c.field = "isEnded" /\ c.operator = "eq" /\ c.value.t = "bool"
    \/ /\ c.event
       /\ c.elements = "get_raw_materials_used_events"
       /\ c.field \in {"supplier", "transformer", "name"}
       /\ c.operator = "eq"
       /\ c.value.t = "str"

\* C1: an AND step that returns yields, as a set of product ids, exactly the
\* ids of the list it was given that also occur in simpleFilter([], C).
C1_AndIsIntersection ==
    Returned("andFilter") => Range(returned) = Range(given) \cap Fresh

\* an AND step removed some ids of a list with a repeated id and kept others
C1_Witness ==
    /\ pc = "returned"
    /\ Returned("andFilter")
    /\ returned # <<>>
    /\ Range(returned) # Range(given)
    /\ ~NoDuplicates(given)

\* C2: an OR step that returns yields, as a set of product ids, exactly the
\* ids of the list it was given together with the ids the criterion matches.
C2_OrIsUnion ==
    Returned("orFilter") => Range(returned) = Range(given) \cup Fresh

\* an OR step added an id to a list that held another one
C2_Witness ==
    /\ pc = "returned"
    /\ Returned("orFilter")
    /\ given # <<>>
    /\ Fresh \ Range(given) # {}
    /\ Range(given) \ Fresh # {}

\* C3: after every step of a filtering session no product id occurs more
\* than once in the accumulated result.
C3_Deduplicated == pc = "choice" => NoDuplicates(results)

\* C4: for an event criterion the ids simpleFilter adds are exactly the
\* products with at least one event that satisfies the criterion.
C4_EventMatch ==
    (Returned("simpleFilter") /\ criteria.event)
        => Range(Appended) = EventMatches

\* two events of one product, only one of which satisfies the criterion
C4_Witness ==
    /\ pc = "returned"
    /\ Returned("simpleFilter")
    /\ criteria.event
    /\ \E i, j \in 1..Len(events) :
          /\ i # j
          /\ events[i].pId = events[j].pId
          /\ Test(events[i], criteria) = "match"
          /\ Test(events[j], criteria) = "nomatch"
          /\ events[i].pId \in Range(Appended)

\* C5: for an entity criterion simpleFilter adds exactly the productId of
\* every record whose attribute satisfies the operator, each id once.
C5_EntityMatch ==
    (Returned("simpleFilter") /\ ~criteria.event)
        => /\ Range(Appended) = EntityMatches
           /\ NoDuplicates(Appended)

\* CF greater-or-equal 80 over (id 1, CF 50), (id 2, CF 120) gives [2]
C5_Witness ==
    /\ pc = "returned"
    /\ Returned("simpleFilter")
    /\ criteria.field = "CF"
    /\ criteria.operator = "ge"
    /\ criteria.value = IntVal(80)
    /\ Len(products) >= 2
    /\ given = <<>>
    /\ IntVal(1) \notin Range(returned)
    /\ IntVal(2) \in Range(returned)

\* C6: a session started from the menu begins with an empty accumulated
\* result, and its first step yields the matches of its own criterion only.
C6_SessionStartsEmpty ==
    /\ (pc = "field" /\ filters = "simpleFilter") => results = <<>>
    /\ (pc = "choice" /\ filters = "simpleFilter") => Range(results) = Fresh

\* C7: when an AND or OR step raises, the list the caller holds is what it
\* was before the step.
C7_FailedStepKeepsAccumulated ==
    (/\ pc \in {"returned", "crashed"}
     /\ filters \in {"andFilter", "orFilter"}
     /\ error # "none")
        => results = given

\* C8: evaluating an invalid criterion raises before any record is scanned,
\* whatever the records.
C8_InvalidFailsBeforeScan ==
    (pc = "returned" /\ ~ValidCriterion(criteria))
        => (error # "none" /\ scanned = 0)

\* C9: when the source returns no record the call does not raise;
\* simpleFilter adds nothing, an OR step keeps the set of ids it was given
\* and an AND step yields the empty list.
C9_EmptySource ==
    (pc = "returned" /\ Elements(criteria) = <<>>)
        => /\ error = "none"
           /\ filters = "simpleFilter" => returned = given
           /\ filters = "orFilter" => Range(returned) = Range(given)
           /\ filters = "andFilter" => returned = <<>>

\* an AND step over an empty source emptied a list that held ids
C9_Witness ==
    /\ pc = "returned"
    /\ Elements(criteria) = <<>>
    /\ filters = "andFilter"
    /\ given # <<>>
    /\ returned = <<>>

\* C10: after every step of a session the accumulated set is the fold: the
\* matches of the criterion for the first step, the intersection of the
\* input with the matches for an AND step, their union for an OR step.
C10_Fold ==
    pc = "choice" =>
        Range(results) =
            CASE filters = "simpleFilter" -> Fresh
              [] filters = "andFilter" -> Range(given) \cap Fresh
              [] filters = "orFilter" -> Range(given) \cup Fresh

\* C11: an OR step applied to the result of an OR step with the same
\* criterion and records returns that result again.
C11_OrIdempotent ==
    (pc = "returned" /\ Returned("orFilter"))
        => LET again == orFilter(returned, criteria)
           IN again.error = "none" /\ again.ret = returned

\* an OR step added matches to a list that held ids
C11_Witness ==
    /\ pc = "returned"
    /\ Returned("orFilter")
    /\ given # <<>>
    /\ Fresh \ Range(given) # {}
    /\ Len(returned) >= 2

\* C12: an AND step applied to the output of an AND step with the same
\* criterion and records leaves it unchanged.
C12_AndIdempotent ==
    (pc = "returned" /\ Returned("andFilter"))
        => LET again == andFilter(returned, criteria)
           IN again.error = "none" /\ again.ret = returned

\* an AND step removed ids and kept an id the list held twice
C12_Witness ==
    /\ pc = "returned"
    /\ Returned("andFilter")
    /\ Len(returned) < Len(given)
    /\ ~NoDuplicates(returned)

\* C13: an AND step of a session never grows the result: its output has at
\* most as many elements as its input, all of them elements of the input.
C13_AndNeverGrows ==
    (pc = "choice" /\ filters = "andFilter")
        => /\ Len(results) <= Len(given)
           /\ Cardinality(Range(results)) <= Cardinality(Range(given))
           /\ Range(results) \subseteq Range(given)

\* an AND step of a session removed some ids and kept others
C13_Witness ==
    /\ pc = "choice"
    /\ filters = "andFilter"
    /\ results # <<>>
    /\ Len(results) < Len(given)

\* C14: an OR step of a session never shrinks the result: its output has at
\* least as many elements as its input.
C14_OrNeverShrinks ==
    (pc = "choice" /\ filters = "orFilter") => Len(results) >= Len(given)

\* C15: simpleFilter has no side effect on the list the caller passed, and a
\* second call with the same arguments returns what the first returned.
C15_EvaluationPure ==
    (pc = "returned" /\ Returned("simpleFilter"))
        => /\ results = given
           /\ simpleFilter(results, criteria).ret = returned

\* C16: neither an AND nor an OR step that returns has changed the list the
\* caller passed in.
C16_CompositionPure ==
    (/\ pc = "returned"
     /\ filters \in {"andFilter", "orFilter"}
     /\ error = "none")
        => results = given

\* C17: simpleFilter on an empty list yields the result of an OR step on an
\* empty list with the same criterion and records: the same ids, as often.
C17_FirstStepIsOr ==
    (pc = "returned" /\ Returned("simpleFilter") /\ given = <<>>)
        => LET step == orFilter(<<>>, criteria)
           IN /\ step.error = "none"
              /\ Range(returned) = Range(step.ret)
              /\ Len(returned) = Len(step.ret)

\* C18: every criterion filterProducts evaluates pairs an ordering operator
\* with productId or CF only, and every other field with Equal only.
C18_OperatorCompatible ==
    pc \in {"choice", "crashed"}
        => /\ criteria.operator \in Orderings
                => (~criteria.event /\ criteria.field \in {"productId", "CF"})
           /\ criteria.field \in {"name", "address", "isEnded", "supplier",
                                  "transformer"}
                => criteria.operator = "eq"

\* a CF criterion with an ordering operator was evaluated and matched
C18_Witness ==
    /\ pc = "choice"
    /\ criteria.field = "CF"
    /\ criteria.operator = "gt"
    /\ results # <<>>


\* C19: when set_account_as_default has run for a known account whose role
\* in the user contract is neither 0 nor user_role, the account is not the
\* web3 default account and the call has raised, so main asks again.
C19_RoleChecked ==
    (/\ pc \in {"menu", "retry"}
     /\ IsAddress(address)
     /\ toChecksumAddress(address) \in eth_accounts
     /\ registered[toChecksumAddress(address)] \notin {0, user_role})
        => /\ default_account # toChecksumAddress(address)
           /\ outcome = "raised"
           /\ pc = "retry"


\* an integer greater than 0, as int() reads the text
PositiveInteger(text) == int(text).ok /\ int(text).value > 0

\* C20: a text judged by either id_input_validation is accepted exactly
\* when it parses as an integer greater than 0, and the implementation of
\* Filter.py and that of validation.py give the same verdict on it.
C20_AcceptsPositiveIntegers ==
    pc = "validated"
        => /\ (verdict = "True") = PositiveInteger(current)
           /\ Filter_id_input_validation(current)
                  = validation_id_input_validation(current)


\* the two steps of the state taken in the other order, from the same list
Swapped ==
    LET a == CallFilter(filters, given, criteria)
    IN IF a.error # "none" THEN a
       ELSE CallFilter(filters, a.ret, previous)

\* C21: two AND steps in a row, or two OR steps in a row, give the same set
\* of ids in either order of their two criteria from the same accumulated
\* list over the same records; where one order fails, so does the other.
C21_OrderIndependent ==
    pc = "composed"
        => /\ (error = "none") = (Swapped.error = "none")
           /\ error = "none" => Range(returned) = Range(Swapped.ret)

C21_Witness ==
    /\ pc = "composed"
    /\ error = "none"
    /\ returned # <<>>
    /\ Range(returned) # Range(given)
    /\ Fresh # Range(simpleFilter(<<>>, previous).ret)
    /\ Fresh # {}
    /\ previous.event # criteria.event


\* C22: a session ends only by the choice of the user and after any number
\* of steps: it is asking for a criterion, at the prompt that follows a
\* step, or back at the menu after "View one product details" or "Exit";
\* it never ends in an error of its own.
C22_EndsByChoiceOnly == pc \in {"menu", "field", "choice", "exited"}


\* a call of set_account_as_default, from before to after
Called == pc = "login" /\ pc' # "login"

\* C23: a call of set_account_as_default with an address that is not among
\* the known accounts of the node raises and changes nothing (nothing is
\* unlocked, no createUser is sent, the default account is what it was);
\* and a call sends createUser only for a known account whose registered
\* role is 0, with a user_role that is not 0.
C23_UnknownAddressRaises ==
    [][Called =>
        /\ toChecksumAddress(address') \notin eth_accounts
              => /\ outcome' = "raised"
                 /\ UNCHANGED <<unlocked, created, registered,
                                default_account>>
        /\ created' # created
              => /\ IsAddress(address')
                 /\ toChecksumAddress(address') \in eth_accounts
                 /\ registered[toChecksumAddress(address')] = 0
                 /\ user_role # 0
                 /\ created'
                      = Append(created,
                               <<toChecksumAddress(address'), user_role>>)
    ]_vars


\* the materials entered that passed input_validation, in the order entered
RECURSIVE Passed(_)
Passed(list) ==
    IF list = <<>> THEN <<>>
    ELSE IF Head(list).valid
         THEN <<Head(list).material>> \o Passed(Tail(list))
         ELSE Passed(Tail(list))

\* C24: in insert_raw_material, whatever the user chooses, nothing is sent
\* before "Done"; after "Cancel" no call of
\* create_raw_materials_on_blockchain was made; after "Done" at most one was
\* made, only with at least one material accepted, and its list is that of
\* the materials that passed input_validation in the order entered, so
\* without any material that failed it.
C24_SubmitsAcceptedOnce ==
    /\ actions # "Done" => submitted = <<>>
    /\ Len(submitted) <= 1
    /\ submitted # <<>>
          => /\ pc = "ended"
             /\ Passed(entered) # <<>>
             /\ submitted[1] = Passed(entered)

C24_Witness ==
    /\ pc = "ended"
    /\ actions = "Done"
    /\ Len(submitted) = 1
    /\ Len(submitted[1]) >= 2
    /\ Len(entered) > Len(submitted[1])
    /\ ~entered[1].valid

====
